---- MODULE Spec2Model ----
\* Record propagation core of go-boilerplate: MessageService sequencing the
\* Repository (PostgreSQL, internal/db/queries.sql), the cache (Redis) and
\* the event publisher (Kafka producer) for each request.
EXTENDS Integers, Sequences, FiniteSets, TLC

\* ------------------------------------------------------------------ bounds
NumIds == 2        \* identifiers the Repository can assign
MaxCalls == 3      \* service calls started in one run
NumTasks == 2      \* request-handling tasks
WordBits == 4      \* width the uint32/int32 arithmetic of the pagination is scaled to
NumPartitions == 2 \* partitions of the topic
MaxEvents == 2     \* events the broker accepts in one run

\* --------------------------------------------------------------- constants
NilUUID == 0       \* uuid.Nil: zero value of Message.ID, never assigned by the Repository
ZeroTime == 0      \* zero value of time.Time
RetryMax == 5      \* config.Producer.Retry.Max
WaitForAll == "all"
RequiredAcks == WaitForAll  \* config.Producer.RequiredAcks
ErrSend == "ErrSend"        \* the error SendMessage returns

Uint32 == 2 ^ WordBits              \* modulus of uint32 arithmetic (scaled)
MaxInt32 == 2 ^ (WordBits - 1) - 1   \* 1<<31 - 1 (scaled)

Ids == 1..NumIds
AllIds == {NilUUID} \cup Ids
Tasks == 1..NumTasks
Contents == {"a", "b"}
Pages == {1, 2, 5}
PageSizes == {1, 2, 4}

NoRow == [absent |-> TRUE]
NoEntry == <<>>
NULL == 0          \* SQL NULL of deleted_at

ErrNil == "nil"
ErrNoRows == "NotFound"          \* pgx.ErrNoRows of a :one query without a row
ErrStorage == "StorageFailure"   \* any other Repository error
ErrPagination == "pagination values too large"

\* the two query files of internal/db the generated Repository code can come from
Builds == {"queries.sql", "query.sql"}

VARIABLES build, db, issued, now, cache, events, pc, op, message, err, result, calls, hist, ncalls

svcVars == <<build, db, issued, now, cache, events, pc, op, message, err, result, calls, hist, ncalls>>

\* producer call in progress, consumer start-up, partition workers and
\* whether the consumer client has been closed
VARIABLES send, ctxDone, start, handle, worker, spawned, newest, pos, processed, closed

kafkaVars == <<send, ctxDone, start, handle, worker, spawned, newest, pos, processed, closed>>

vars == <<svcVars, kafkaVars>>

\* models.Message
Message(id, content, createdAt, updatedAt) ==
    [ID |-> id, Content |-> content, CreatedAt |-> createdAt, UpdatedAt |-> updatedAt]

ZeroMessage == Message(NilUUID, "", ZeroTime, ZeroTime)

\* variant: the conversion leaves Content out
RowToMessageNoContent(id, row) == Message(id, "", row.created_at, row.updated_at)

\* variant: the conversion takes UpdatedAt from created_at
RowToMessageStaleUpdatedAt(id, row) == Message(id, row.content, row.created_at, row.created_at)

\* the service's conversion of a db row into models.Message
RowToMessage(id, row) == Message(id, row.content, row.created_at, row.updated_at)

\* ------------------------------------------------------------- Repository
Live(d, id) == id \in Ids /\ d[id] # NoRow /\ d[id].deleted_at = NULL

Created(d) == {i \in Ids : d[i] # NoRow}

\* -- name: CreateMessage :one   INSERT ... RETURNING *
\* uuid_generate_v4() is modelled as the next unused identifier.
NewId(used) == CHOOSE i \in Ids \ used : \A j \in Ids \ used : i <= j

InsertRow(d, id, t, content) ==
    [d EXCEPT ![id] =
        [content |-> content, created_at |-> t, updated_at |-> t, deleted_at |-> NULL]]

\* variant: the update leaves updated_at as it was
UpdateRowNoTouch(d, t, id, content) ==
    [d EXCEPT ![id] = [@ EXCEPT !.content = content]]

\* -- name: UpdateMessage :one   UPDATE ... SET content, updated_at WHERE id AND deleted_at IS NULL
UpdateRow(d, t, id, content) ==
    [d EXCEPT ![id] = [@ EXCEPT !.content = content, !.updated_at = t]]

\* queries.sql -- name: DeleteMessage :exec
\*   UPDATE ... SET deleted_at = CURRENT_TIMESTAMP WHERE id AND deleted_at IS NULL
\* (the BEFORE UPDATE trigger of the migration refreshes updated_at as well)
DeleteRow(d, t, id) ==
    IF Live(d, id) THEN [d EXCEPT ![id] = [@ EXCEPT !.deleted_at = t, !.updated_at = t]] ELSE d

\* query.sql -- name: DeleteMessage :exec   DELETE FROM messages WHERE id = $1
HardDeleteRow(d, id) ==
    IF Live(d, id) THEN [d EXCEPT ![id] = NoRow] ELSE d

\* -- name: GetTotalMessages :one
TotalMessages(d) == Cardinality({i \in Ids : Live(d, i)})

\* live rows ORDER BY created_at DESC
RECURSIVE OrderedLive(_, _)
OrderedLive(d, S) ==
    IF S = {} THEN <<>>
    ELSE LET i == CHOOSE x \in S : \A y \in S : d[x].created_at >= d[y].created_at
         IN <<i>> \o OrderedLive(d, S \ {i})

\* -- name: ListMessages :many   LIMIT $1 OFFSET $2
ListRows(d, limit, offset) ==
    LET all == OrderedLive(d, {i \in Ids : Live(d, i)})
        n == Len(all)
        lo == offset + 1
        hi == IF offset + limit < n THEN offset + limit ELSE n
    IN [k \in 1..(IF hi >= lo THEN hi - lo + 1 ELSE 0) |->
            RowToMessage(all[lo + k - 1], d[all[lo + k - 1]])]

\* ------------------------------------------------------------------ Cache
\* value stored under the key: the JSON document of the Message
Marshal(m) == <<m.ID, m.Content, m.CreatedAt, m.UpdatedAt>>
Unmarshal(v) == Message(v[1], v[2], v[3], v[4])

CacheSet(c, id, m) == [c EXCEPT ![id] = Marshal(m)]
CacheDel(c, id) == [c EXCEPT ![id] = NoEntry]

\* -------------------------------------------------------------- Publisher
\* variant: the event is sent without a key
ProducerMessageNoKey(m) == [Key |-> NilUUID, Value |-> Marshal(m)]

\* sarama.ProducerMessage: Key = message.ID.String(), Value = json.Marshal(message)
ProducerMessage(m) == [Key |-> m.ID, Value |-> Marshal(m)]

\* a value on the topic that is not the JSON document of a Message
Garbage == <<>>

Partitions == 1..NumPartitions

\* partition the hash partitioner assigns to a key
Partition(key) == (key % NumPartitions) + 1

\* events of partition p in the order the broker accepted them
PartitionLog(ev, p) == SelectSeq(ev, LAMBDA e : Partition(e.Key) = p)

\* ------------------------------------------------------------------- Init
NoSend == [pc |-> "idle", msg |-> ZeroMessage, attempts |-> 0, acks |-> "none", err |-> ErrNil]
NoStart == [pc |-> "init", next |-> 1]
NoOp == [name |-> "none", id |-> NilUUID, content |-> ""]
NoHist == [mut |-> "none", content |-> "", fresh |-> FALSE]
NoResult == [messages |-> <<>>, total |-> 0]

Init ==
    /\ build \in Builds
    /\ db = [i \in Ids |-> NoRow]
    /\ issued = {}
    /\ now = 1
    /\ cache = [i \in AllIds |-> NoEntry]
    /\ events = <<>>
    /\ pc = [t \in Tasks |-> "idle"]
    /\ op = [t \in Tasks |-> NoOp]
    /\ message = [t \in Tasks |-> ZeroMessage]
    /\ err = [t \in Tasks |-> ErrNil]
    /\ result = [t \in Tasks |-> NoResult]
    /\ calls = [t \in Tasks |-> <<>>]
    /\ hist = [i \in AllIds |-> NoHist]
    /\ ncalls = 0
    /\ send = NoSend
    /\ ctxDone = FALSE
    /\ start = NoStart
    /\ handle = [p \in Partitions |-> "none"]
    /\ worker = [p \in Partitions |-> "none"]
    /\ spawned = [p \in Partitions |-> 0]
    /\ newest = [p \in Partitions |-> 0]
    /\ pos = [p \in Partitions |-> 0]
    /\ processed = [p \in Partitions |-> <<>>]
    /\ closed = FALSE

\* ------------------------------------------------------------ bookkeeping
Log(t, call, res) == Append(calls[t], [call |-> call, res |-> res])

Did(t, call) == \E k \in 1..Len(calls[t]) : calls[t][k].call = call

Outcome(t, call, res) ==
    \E k \in 1..Len(calls[t]) : calls[t][k].call = call /\ calls[t][k].res = res

Known == {NilUUID} \cup issued

\* a handler may enter the service
MayStart(t) == pc[t] = "idle" /\ ncalls < MaxCalls

Enter(t, o, m, label) ==
    /\ MayStart(t)
    /\ pc' = [pc EXCEPT ![t] = label]
    /\ op' = [op EXCEPT ![t] = o]
    /\ message' = [message EXCEPT ![t] = m]
    /\ ncalls' = ncalls + 1
    /\ UNCHANGED <<build, db, issued, now, cache, events, err, result, calls, hist>>

\* variant: the error is wrapped before it is returned
FailWrapped(t, call, e) ==
    /\ err' = [err EXCEPT ![t] = "wrapped"]
    /\ calls' = [calls EXCEPT ![t] = Log(t, call, e)]
    /\ pc' = [pc EXCEPT ![t] = "done"]

\* if err != nil { return err }: the Repository's error goes to the caller as it is
Fail(t, call, e) ==
    /\ err' = [err EXCEPT ![t] = e]
    /\ calls' = [calls EXCEPT ![t] = Log(t, call, e)]
    /\ pc' = [pc EXCEPT ![t] = "done"]

\* ---------------------------------------------------------- CreateMessage
\* MessageHandler.CreateMessage: message := &models.Message{Content: req.Content}
CallCreateMessage(t) ==
    \E c \in Contents :
        Enter(t, [name |-> "create", id |-> NilUUID, content |-> c],
              Message(NilUUID, c, ZeroTime, ZeroTime), "CreateMessage_db")

\* result, err := s.queries.CreateMessage(ctx, message.Content)
CreateMessage_db(t) ==
    /\ pc[t] = "CreateMessage_db"
    /\ \/ /\ issued # Ids
          /\ db' = InsertRow(db, NewId(issued), now, message[t].Content)
          /\ issued' = issued \cup {NewId(issued)}
          /\ now' = now + 1
          /\ message' = [message EXCEPT ![t] = RowToMessage(NewId(issued), db'[NewId(issued)])]
          /\ calls' = [calls EXCEPT ![t] = Log(t, "db.CreateMessage", "ok")]
          /\ pc' = [pc EXCEPT ![t] = "CreateMessage_cache"]
          /\ UNCHANGED err
       \/ /\ Fail(t, "db.CreateMessage", ErrStorage)
          /\ UNCHANGED <<db, issued, now, message>>
    /\ UNCHANGED <<build, cache, events, op, result, hist, ncalls>>

\* variant: a failing cache.Set aborts the request
SetStepFatal(t, from, to) ==
    /\ pc[t] = from
    /\ \/ /\ cache' = CacheSet(cache, message[t].ID, message[t])
          /\ calls' = [calls EXCEPT ![t] = Log(t, "cache.Set", "ok")]
          /\ pc' = [pc EXCEPT ![t] = to]
          /\ UNCHANGED err
       \/ /\ calls' = [calls EXCEPT ![t] = Log(t, "cache.Set", "err")]
          /\ err' = [err EXCEPT ![t] = "CacheFailure"]
          /\ pc' = [pc EXCEPT ![t] = "done"]
          /\ UNCHANGED cache
    /\ UNCHANGED <<build, db, issued, now, events, op, message, result, hist, ncalls>>

\* s.cache.Set(ctx, message.ID.String(), message, 24*time.Hour); error ignored
SetStep(t, from, to) ==
    /\ pc[t] = from
    /\ \/ /\ cache' = CacheSet(cache, message[t].ID, message[t])
          /\ calls' = [calls EXCEPT ![t] = Log(t, "cache.Set", "ok")]
       \/ /\ calls' = [calls EXCEPT ![t] = Log(t, "cache.Set", "err")]
          /\ UNCHANGED cache
    /\ pc' = [pc EXCEPT ![t] = to]
    /\ UNCHANGED <<build, db, issued, now, events, op, message, err, result, hist, ncalls>>

\* variant: a failing publish is returned to the caller
PublishStepFatal(t, from, m) ==
    /\ pc[t] = from
    /\ \/ /\ events' = Append(events, ProducerMessage(m))
          /\ calls' = [calls EXCEPT ![t] = Log(t, "producer.PublishMessage", "ok")]
          /\ UNCHANGED err
       \/ /\ calls' = [calls EXCEPT ![t] = Log(t, "producer.PublishMessage", "err")]
          /\ err' = [err EXCEPT ![t] = "PublishFailure"]
          /\ UNCHANGED events
    /\ pc' = [pc EXCEPT ![t] = "done"]
    /\ UNCHANGED <<build, db, issued, now, cache, op, message, result, hist, ncalls>>

\* s.producer.PublishMessage(m); error ignored
PublishStep(t, from, m) ==
    /\ pc[t] = from
    /\ \/ /\ events' = Append(events, ProducerMessage(m))
          /\ calls' = [calls EXCEPT ![t] = Log(t, "producer.PublishMessage", "ok")]
       \/ /\ calls' = [calls EXCEPT ![t] = Log(t, "producer.PublishMessage", "err")]
          /\ UNCHANGED events
    /\ pc' = [pc EXCEPT ![t] = "done"]
    /\ UNCHANGED <<build, db, issued, now, cache, op, message, err, result, hist, ncalls>>

\* variant: CreateMessage returns after the cache step
CreateMessage_cacheThenReturn(t) == SetStep(t, "CreateMessage_cache", "done")

CreateMessage_cache(t) == SetStep(t, "CreateMessage_cache", "CreateMessage_publish")

CreateMessage_publish(t) == PublishStep(t, "CreateMessage_publish", message[t])

\* ------------------------------------------------------------- GetMessage
CallGetMessage(t) ==
    \E id \in Known :
        Enter(t, [name |-> "get", id |-> id, content |-> ""], ZeroMessage, "GetMessage_cache")

\* variant: the cached entry is decoded but the Repository is read all the same
GetMessage_cacheNoReturn(t) ==
    /\ pc[t] = "GetMessage_cache"
    /\ \/ /\ cache[op[t].id] # NoEntry
          /\ message' = [message EXCEPT ![t] = Unmarshal(cache[op[t].id])]
          /\ calls' = [calls EXCEPT ![t] = Log(t, "cache.Get", "hit")]
       \/ /\ cache[op[t].id] = NoEntry
          /\ calls' = [calls EXCEPT ![t] = Log(t, "cache.Get", "miss")]
          /\ UNCHANGED message
       \/ /\ calls' = [calls EXCEPT ![t] = Log(t, "cache.Get", "err")]
          /\ UNCHANGED message
    /\ pc' = [pc EXCEPT ![t] = "GetMessage_db"]
    /\ UNCHANGED <<build, db, issued, now, cache, events, op, err, result, hist, ncalls>>

\* if err := s.cache.Get(ctx, id.String(), &message); err == nil { return &message, nil }
GetMessage_cache(t) ==
    /\ pc[t] = "GetMessage_cache"
    /\ \/ /\ cache[op[t].id] # NoEntry
          /\ message' = [message EXCEPT ![t] = Unmarshal(cache[op[t].id])]
          /\ calls' = [calls EXCEPT ![t] = Log(t, "cache.Get", "hit")]
          /\ pc' = [pc EXCEPT ![t] = "done"]
       \/ /\ cache[op[t].id] = NoEntry
          /\ calls' = [calls EXCEPT ![t] = Log(t, "cache.Get", "miss")]
          /\ pc' = [pc EXCEPT ![t] = "GetMessage_db"]
          /\ UNCHANGED message
       \/ /\ calls' = [calls EXCEPT ![t] = Log(t, "cache.Get", "err")]
          /\ pc' = [pc EXCEPT ![t] = "GetMessage_db"]
          /\ UNCHANGED message
    /\ UNCHANGED <<build, db, issued, now, cache, events, op, err, result, hist, ncalls>>

\* result, err := s.queries.GetMessage(ctx, id)
GetMessage_db(t) ==
    /\ pc[t] = "GetMessage_db"
    /\ \/ /\ Live(db, op[t].id)
          /\ message' = [message EXCEPT ![t] = RowToMessage(op[t].id, db[op[t].id])]
          /\ calls' = [calls EXCEPT ![t] = Log(t, "db.GetMessage", "ok")]
          /\ pc' = [pc EXCEPT ![t] = "GetMessage_set"]
          /\ UNCHANGED err
       \/ /\ ~Live(db, op[t].id)
          /\ Fail(t, "db.GetMessage", ErrNoRows)
          /\ UNCHANGED message
       \/ /\ Fail(t, "db.GetMessage", ErrStorage)
          /\ UNCHANGED message
    /\ UNCHANGED <<build, db, issued, now, cache, events, op, result, hist, ncalls>>

GetMessage_set(t) == SetStep(t, "GetMessage_set", "done")

\* ---------------------------------------------------------- UpdateMessage
\* MessageHandler.UpdateMessage: message := &models.Message{ID: id, Content: req.Content}
CallUpdateMessage(t) ==
    \E id \in Known, c \in Contents :
        Enter(t, [name |-> "update", id |-> id, content |-> c],
              Message(id, c, ZeroTime, ZeroTime), "UpdateMessage_db")

\* result, err := s.queries.UpdateMessage(ctx, params); message.UpdatedAt = result.UpdatedAt.Time
UpdateMessage_db(t) ==
    /\ pc[t] = "UpdateMessage_db"
    /\ \/ /\ Live(db, message[t].ID)
          /\ db' = UpdateRow(db, now, message[t].ID, message[t].Content)
          /\ now' = now + 1
          /\ message' = [message EXCEPT ![t].UpdatedAt = db'[message[t].ID].updated_at]
          /\ calls' = [calls EXCEPT ![t] = Log(t, "db.UpdateMessage", "ok")]
          /\ pc' = [pc EXCEPT ![t] = "UpdateMessage_cache"]
          /\ UNCHANGED err
       \/ /\ ~Live(db, message[t].ID)
          /\ Fail(t, "db.UpdateMessage", ErrNoRows)
          /\ UNCHANGED <<db, now, message>>
       \/ /\ Fail(t, "db.UpdateMessage", ErrStorage)
          /\ UNCHANGED <<db, now, message>>
    /\ UNCHANGED <<build, issued, cache, events, op, result, hist, ncalls>>

UpdateMessage_cache(t) == SetStep(t, "UpdateMessage_cache", "UpdateMessage_publish")

UpdateMessage_publish(t) == PublishStep(t, "UpdateMessage_publish", message[t])

\* ---------------------------------------------------------- DeleteMessage
CallDeleteMessage(t) ==
    \E id \in Known :
        Enter(t, [name |-> "delete", id |-> id, content |-> ""], ZeroMessage, "DeleteMessage_db")

\* if err := s.queries.DeleteMessage(ctx, id); err != nil { return err }
DeleteMessage_db(t) ==
    /\ pc[t] = "DeleteMessage_db"
    /\ \/ /\ db' = IF build = "queries.sql" THEN DeleteRow(db, now, op[t].id)
                                             ELSE HardDeleteRow(db, op[t].id)
          /\ now' = IF db' # db THEN now + 1 ELSE now
          /\ calls' = [calls EXCEPT ![t] = Log(t, "db.DeleteMessage", "ok")]
          /\ pc' = [pc EXCEPT ![t] = "DeleteMessage_cache"]
          /\ UNCHANGED err
       \/ /\ Fail(t, "db.DeleteMessage", ErrStorage)
          /\ UNCHANGED <<db, now>>
    /\ UNCHANGED <<build, issued, cache, events, op, message, result, hist, ncalls>>

\* s.cache.Del(ctx, id.String()); error ignored
DeleteMessage_cache(t) ==
    /\ pc[t] = "DeleteMessage_cache"
    /\ \/ /\ cache' = CacheDel(cache, op[t].id)
          /\ calls' = [calls EXCEPT ![t] = Log(t, "cache.Del", "ok")]
       \/ /\ calls' = [calls EXCEPT ![t] = Log(t, "cache.Del", "err")]
          /\ UNCHANGED cache
    /\ pc' = [pc EXCEPT ![t] = "DeleteMessage_publish"]
    /\ UNCHANGED <<build, db, issued, now, events, op, message, err, result, hist, ncalls>>

\* variant: the deletion returns without a publish call
DeleteMessage_publishSkipped(t) ==
    /\ pc[t] = "DeleteMessage_publish"
    /\ pc' = [pc EXCEPT ![t] = "done"]
    /\ UNCHANGED <<build, db, issued, now, cache, events, op, message, err, result, calls, hist, ncalls>>

\* deleteEvent := &models.Message{ID: id}; s.producer.PublishMessage(deleteEvent)
DeleteMessage_publish(t) ==
    PublishStep(t, "DeleteMessage_publish", Message(op[t].id, "", ZeroTime, ZeroTime))

\* -------------------------------------------------- ListMessagesPaginated
CallListMessagesPaginated(t) ==
    \E p \in Pages, ps \in PageSizes :
        Enter(t, [name |-> "list", id |-> NilUUID, content |-> "", page |-> p, pageSize |-> ps],
              ZeroMessage, "ListMessages_total")

\* offset := (page - 1) * pageSize   (uint32 arithmetic)
Offset(page, pageSize) == ((page - 1) * pageSize) % Uint32

\* total, err := s.queries.GetTotalMessages(ctx), then the range check
ListMessages_total(t) ==
    /\ pc[t] = "ListMessages_total"
    /\ \/ /\ op[t].pageSize <= MaxInt32 /\ Offset(op[t].page, op[t].pageSize) <= MaxInt32
          /\ result' = [result EXCEPT ![t].total = TotalMessages(db)]
          /\ calls' = [calls EXCEPT ![t] = Log(t, "db.GetTotalMessages", "ok")]
          /\ pc' = [pc EXCEPT ![t] = "ListMessages_query"]
          /\ UNCHANGED err
       \/ /\ ~(op[t].pageSize <= MaxInt32 /\ Offset(op[t].page, op[t].pageSize) <= MaxInt32)
          /\ err' = [err EXCEPT ![t] = ErrPagination]
          /\ calls' = [calls EXCEPT ![t] = Log(t, "db.GetTotalMessages", "ok")]
          /\ pc' = [pc EXCEPT ![t] = "done"]
          /\ UNCHANGED result
       \/ /\ Fail(t, "db.GetTotalMessages", ErrStorage)
          /\ UNCHANGED result
    /\ UNCHANGED <<build, db, issued, now, cache, events, op, message, hist, ncalls>>

\* results, err := s.queries.ListMessages(ctx, {Limit: int32(pageSize), Offset: int32(offset)})
ListMessages_query(t) ==
    /\ pc[t] = "ListMessages_query"
    /\ \/ /\ result' = [result EXCEPT ![t].messages =
                            ListRows(db, op[t].pageSize, Offset(op[t].page, op[t].pageSize))]
          /\ calls' = [calls EXCEPT ![t] = Log(t, "db.ListMessages", "ok")]
          /\ UNCHANGED err
       \/ /\ err' = [err EXCEPT ![t] = ErrStorage]
          /\ result' = [result EXCEPT ![t] = NoResult]
          /\ calls' = [calls EXCEPT ![t] = Log(t, "db.ListMessages", ErrStorage)]
    /\ pc' = [pc EXCEPT ![t] = "done"]
    /\ UNCHANGED <<build, db, issued, now, cache, events, op, message, hist, ncalls>>

\* ----------------------------------------------------------------- return
\* identifier the finished call was about
Subject(t) == IF op[t].name = "create" THEN message[t].ID ELSE op[t].id

Mutations == {"create", "update", "delete"}

Record(t) ==
    IF op[t].name = "list" \/ (op[t].name = "create" /\ err[t] # ErrNil) THEN hist
    ELSE IF op[t].name \in Mutations /\ err[t] = ErrNil
         THEN [hist EXCEPT ![Subject(t)] =
                  [mut |-> op[t].name, content |-> op[t].content, fresh |-> TRUE]]
         ELSE [hist EXCEPT ![Subject(t)].fresh = FALSE]

\* the call returns to its handler
Return(t) ==
    /\ pc[t] = "done"
    /\ hist' = Record(t)
    /\ pc' = [pc EXCEPT ![t] = "idle"]
    /\ op' = [op EXCEPT ![t] = NoOp]
    /\ message' = [message EXCEPT ![t] = ZeroMessage]
    /\ err' = [err EXCEPT ![t] = ErrNil]
    /\ result' = [result EXCEPT ![t] = NoResult]
    /\ calls' = [calls EXCEPT ![t] = <<>>]
    /\ UNCHANGED <<build, db, issued, now, cache, events, ncalls>>

\* the entry's TTL (24h from the Set) runs out
Expire ==
    /\ \E id \in AllIds :
          /\ cache[id] # NoEntry
          /\ cache' = CacheDel(cache, id)
    /\ UNCHANGED <<build, db, issued, now, events, pc, op, message, err, result, calls, hist, ncalls>>

\* ============================================================ kafka package
\* --------------------------------------------------- Producer.PublishMessage
\* messages handed to the producer: a snapshot or an identifier-only deletion per id
PubMessages == {Message(i, c, ZeroTime, ZeroTime) : i \in Ids, c \in {"a", ""}}

\* the acknowledgement a send attempt can end with
Acks == {"none", "leader", "all"}

\* data, err := json.Marshal(message); msg := &sarama.ProducerMessage{...}
PublishMessage_call ==
    /\ send.pc = "idle"
    /\ Len(events) < MaxEvents
    /\ \E m \in PubMessages : send' = [NoSend EXCEPT !.pc = "sending", !.msg = m]
    /\ UNCHANGED <<build, db, issued, now, cache, events, pc, op, message, err, result, calls, hist, ncalls>>
    /\ UNCHANGED <<ctxDone, start, handle, worker, spawned, newest, pos, processed, closed>>

\* variant: the send is repeated once more than Retry.Max
SendAttemptOneMore ==
    /\ send.pc = "sending"
    /\ \E a \in Acks :
          IF a = RequiredAcks
          THEN /\ send' = [send EXCEPT !.pc = "returned", !.attempts = @ + 1, !.acks = a]
               /\ events' = Append(events, ProducerMessage(send.msg))
          ELSE /\ \E retriable \in BOOLEAN :
                     send' = IF retriable /\ send.attempts < RetryMax + 1
                             THEN [send EXCEPT !.attempts = @ + 1]
                             ELSE [send EXCEPT !.pc = "returned", !.attempts = @ + 1,
                                               !.acks = a, !.err = ErrSend]
               /\ UNCHANGED events
    /\ UNCHANGED <<build, db, issued, now, cache, pc, op, message, err, result, calls, hist, ncalls>>
    /\ UNCHANGED <<ctxDone, start, handle, worker, spawned, newest, pos, processed, closed>>

\* _, _, err = p.producer.SendMessage(msg): one send attempt. It succeeds when
\* the acknowledgement is the required one, is repeated when the failure can
\* be retried and fewer than Retry.Max retries were made, and fails the call
\* otherwise
SendAttempt ==
    /\ send.pc = "sending"
    /\ \E a \in Acks :
          IF a = RequiredAcks
          THEN /\ send' = [send EXCEPT !.pc = "returned", !.attempts = @ + 1, !.acks = a]
               /\ events' = Append(events, ProducerMessage(send.msg))
          ELSE /\ \E retriable \in BOOLEAN :
                     send' = IF retriable /\ send.attempts < RetryMax
                             THEN [send EXCEPT !.attempts = @ + 1]
                             ELSE [send EXCEPT !.pc = "returned", !.attempts = @ + 1,
                                               !.acks = a, !.err = ErrSend]
               /\ UNCHANGED events
    /\ UNCHANGED <<build, db, issued, now, cache, pc, op, message, err, result, calls, hist, ncalls>>
    /\ UNCHANGED <<ctxDone, start, handle, worker, spawned, newest, pos, processed, closed>>

\* return err / return nil
PublishMessage_return ==
    /\ send.pc = "returned"
    /\ send' = NoSend
    /\ UNCHANGED <<build, db, issued, now, cache, events, pc, op, message, err, result, calls, hist, ncalls>>
    /\ UNCHANGED <<ctxDone, start, handle, worker, spawned, newest, pos, processed, closed>>

ProducerNext ==
    \/ PublishMessage_call
    \/ SendAttempt
    \/ PublishMessage_return

KafkaInit == Init /\ build = "queries.sql"

ProducerSpec == KafkaInit /\ [][ProducerNext]_vars

\* SendMessage blocks until the attempt in progress is answered or times out
ProducerFairSpec == ProducerSpec /\ WF_vars(SendAttempt)

\* ----------------------------------------------------------- Consumer.Start
\* a PublishMessage call whose send is acknowledged, as one step
PublishMessage_accepted ==
    /\ Len(events) < MaxEvents
    /\ \E m \in PubMessages : events' = Append(events, ProducerMessage(m))
    /\ UNCHANGED <<build, db, issued, now, cache, pc, op, message, err, result, calls, hist, ncalls>>
    /\ UNCHANGED kafkaVars

\* another producer of the topic appends a value that is not a Message document
ForeignPublish ==
    /\ Len(events) < MaxEvents
    /\ \E k \in Ids : events' = Append(events, [Key |-> k, Value |-> Garbage])
    /\ UNCHANGED <<build, db, issued, now, cache, pc, op, message, err, result, calls, hist, ncalls>>
    /\ UNCHANGED kafkaVars

\* partitions, err := c.consumer.Partitions(c.topic)
Start_partitions ==
    /\ start.pc = "init"
    /\ \/ start' = [start EXCEPT !.pc = "loop"]
       \/ start' = [start EXCEPT !.pc = "returned_err"]
    /\ UNCHANGED <<svcVars, send, ctxDone, handle, worker, spawned, newest, pos, processed, closed>>

\* variant: the loop stays on a partition until it has two workers
Start_consumeAgain ==
    /\ start.pc = "loop"
    /\ start.next \in Partitions
    /\ \/ /\ handle' = [handle EXCEPT ![start.next] = "open"]
          /\ worker' = [worker EXCEPT ![start.next] = "select"]
          /\ spawned' = [spawned EXCEPT ![start.next] = @ + 1]
          /\ newest' = [newest EXCEPT ![start.next] = Len(PartitionLog(events, start.next))]
          /\ start' = [start EXCEPT !.next = IF spawned[start.next] = 0 THEN @ ELSE @ + 1]
       \/ /\ start' = [start EXCEPT !.pc = "returned_err"]
          /\ UNCHANGED <<handle, worker, spawned, newest>>
    /\ UNCHANGED <<svcVars, send, ctxDone, pos, processed, closed>>

\* pc, err := c.consumer.ConsumePartition(c.topic, partition, sarama.OffsetNewest);
\* if err != nil { return err }; go func(pc) {...}(pc)
Start_consume ==
    /\ start.pc = "loop"
    /\ start.next \in Partitions
    /\ \/ /\ handle' = [handle EXCEPT ![start.next] = "open"]
          /\ worker' = [worker EXCEPT ![start.next] = "select"]
          /\ spawned' = [spawned EXCEPT ![start.next] = @ + 1]
          /\ newest' = [newest EXCEPT ![start.next] = Len(PartitionLog(events, start.next))]
          /\ start' = [start EXCEPT !.next = @ + 1]
       \/ /\ start' = [start EXCEPT !.pc = "returned_err"]
          /\ UNCHANGED <<handle, worker, spawned, newest>>
    /\ UNCHANGED <<svcVars, send, ctxDone, pos, processed, closed>>

\* return nil
Start_return ==
    /\ start.pc = "loop"
    /\ start.next \notin Partitions
    /\ start' = [start EXCEPT !.pc = "returned_ok"]
    /\ UNCHANGED <<svcVars, send, ctxDone, handle, worker, spawned, newest, pos, processed, closed>>

\* ------------------------------------------------------ partition goroutine
\* events of partition p the worker has received so far
Consumed(p) == SubSeq(PartitionLog(events, p), newest[p] + 1, newest[p] + pos[p])

\* a message is ready on pc.Messages()
Available(p) == newest[p] + pos[p] < Len(PartitionLog(events, p))

\* the event the worker of partition p receives next
NextEvent(p) == PartitionLog(events, p)[newest[p] + pos[p] + 1]

\* json.Unmarshal(msg.Value, &message) returns nil
Decodes(v) == Len(v) = Len(Marshal(ZeroMessage))

\* c.logger.Info("Received message", id, content)
Logged(v) == [id |-> Unmarshal(v).ID, content |-> Unmarshal(v).Content]

\* variant: a value that cannot be decoded ends the worker
Worker_messageStopOnError(p) ==
    /\ worker[p] = "select"
    /\ Available(p)
    /\ pos' = [pos EXCEPT ![p] = @ + 1]
    /\ IF Decodes(NextEvent(p).Value)
       THEN /\ processed' = [processed EXCEPT ![p] = Append(@, Logged(NextEvent(p).Value))]
            /\ UNCHANGED <<worker, handle>>
       ELSE /\ worker' = [worker EXCEPT ![p] = "returned"]
            /\ handle' = [handle EXCEPT ![p] = "closed"]
            /\ UNCHANGED processed
    /\ UNCHANGED <<svcVars, send, ctxDone, start, spawned, newest, closed>>

\* case msg := <-pc.Messages(): decode; on error log it and continue, else log the message
Worker_message(p) ==
    /\ worker[p] = "select"
    /\ Available(p)
    /\ pos' = [pos EXCEPT ![p] = @ + 1]
    /\ IF Decodes(NextEvent(p).Value)
       THEN processed' = [processed EXCEPT ![p] = Append(@, Logged(NextEvent(p).Value))]
       ELSE UNCHANGED processed
    /\ UNCHANGED <<svcVars, send, ctxDone, start, handle, worker, spawned, newest, closed>>

\* variant: the worker returns without the deferred pc.Close()
Worker_doneNoClose(p) ==
    /\ worker[p] = "select"
    /\ ctxDone
    /\ worker' = [worker EXCEPT ![p] = "returned"]
    /\ UNCHANGED <<svcVars, send, ctxDone, start, handle, spawned, newest, pos, processed, closed>>

\* case <-ctx.Done(): return, running the deferred pc.Close()
Worker_done(p) ==
    /\ worker[p] = "select"
    /\ ctxDone
    /\ worker' = [worker EXCEPT ![p] = "returned"]
    /\ handle' = [handle EXCEPT ![p] = "closed"]
    /\ UNCHANGED <<svcVars, send, ctxDone, start, spawned, newest, pos, processed, closed>>

\* main: cancel() after a signal or a server error
Cancel ==
    /\ ~ctxDone
    /\ ctxDone' = TRUE
    /\ UNCHANGED <<svcVars, send, start, handle, worker, spawned, newest, pos, processed, closed>>

\* main returns after cancel(): the deferred consumer.Close() runs
Close ==
    /\ ctxDone
    /\ ~closed
    /\ closed' = TRUE
    /\ UNCHANGED <<svcVars, send, ctxDone, start, handle, worker, spawned, newest, pos, processed>>

ConsumerNext ==
    \/ PublishMessage_accepted
    \/ ForeignPublish
    \/ Start_partitions
    \/ Start_consume
    \/ Start_return
    \/ \E p \in Partitions : Worker_message(p)
    \/ \E p \in Partitions : Worker_done(p)
    \/ Cancel
    \/ Close

ConsumerSpec == KafkaInit /\ [][ConsumerNext]_vars

\* the Go scheduler runs every goroutine, and a select whose ctx.Done() case
\* stays ready takes it after finitely many rounds
ConsumerFairSpec == ConsumerSpec /\ \A p \in Partitions : WF_vars(Worker_done(p))

\* ------------------------------------------------------------ whole service
Next ==
    \/ \E t \in Tasks : CallCreateMessage(t) /\ UNCHANGED kafkaVars
    \/ \E t \in Tasks : CreateMessage_db(t) /\ UNCHANGED kafkaVars
    \/ \E t \in Tasks : CreateMessage_cache(t) /\ UNCHANGED kafkaVars
    \/ \E t \in Tasks : CreateMessage_publish(t) /\ UNCHANGED kafkaVars
    \/ \E t \in Tasks : CallGetMessage(t) /\ UNCHANGED kafkaVars
    \/ \E t \in Tasks : GetMessage_cache(t) /\ UNCHANGED kafkaVars
    \/ \E t \in Tasks : GetMessage_db(t) /\ UNCHANGED kafkaVars
    \/ \E t \in Tasks : GetMessage_set(t) /\ UNCHANGED kafkaVars
    \/ \E t \in Tasks : CallUpdateMessage(t) /\ UNCHANGED kafkaVars
    \/ \E t \in Tasks : UpdateMessage_db(t) /\ UNCHANGED kafkaVars
    \/ \E t \in Tasks : UpdateMessage_cache(t) /\ UNCHANGED kafkaVars
    \/ \E t \in Tasks : UpdateMessage_publish(t) /\ UNCHANGED kafkaVars
    \/ \E t \in Tasks : CallDeleteMessage(t) /\ UNCHANGED kafkaVars
    \/ \E t \in Tasks : DeleteMessage_db(t) /\ UNCHANGED kafkaVars
    \/ \E t \in Tasks : DeleteMessage_cache(t) /\ UNCHANGED kafkaVars
    \/ \E t \in Tasks : DeleteMessage_publish(t) /\ UNCHANGED kafkaVars
    \/ \E t \in Tasks : CallListMessagesPaginated(t) /\ UNCHANGED kafkaVars
    \/ \E t \in Tasks : ListMessages_total(t) /\ UNCHANGED kafkaVars
    \/ \E t \in Tasks : ListMessages_query(t) /\ UNCHANGED kafkaVars
    \/ \E t \in Tasks : Return(t) /\ UNCHANGED kafkaVars
    \/ Expire /\ UNCHANGED kafkaVars

Spec == Init /\ [][Next]_vars

\* sequential runs: one task serves the requests one after the other
SeqTask == CHOOSE t \in Tasks : \A u \in Tasks : t <= u

SeqNext ==
    \/ CallCreateMessage(SeqTask) /\ UNCHANGED kafkaVars
    \/ CreateMessage_db(SeqTask) /\ UNCHANGED kafkaVars
    \/ CreateMessage_cache(SeqTask) /\ UNCHANGED kafkaVars
    \/ CreateMessage_publish(SeqTask) /\ UNCHANGED kafkaVars
    \/ CallGetMessage(SeqTask) /\ UNCHANGED kafkaVars
    \/ GetMessage_cache(SeqTask) /\ UNCHANGED kafkaVars
    \/ GetMessage_db(SeqTask) /\ UNCHANGED kafkaVars
    \/ GetMessage_set(SeqTask) /\ UNCHANGED kafkaVars
    \/ CallUpdateMessage(SeqTask) /\ UNCHANGED kafkaVars
    \/ UpdateMessage_db(SeqTask) /\ UNCHANGED kafkaVars
    \/ UpdateMessage_cache(SeqTask) /\ UNCHANGED kafkaVars
    \/ UpdateMessage_publish(SeqTask) /\ UNCHANGED kafkaVars
    \/ CallDeleteMessage(SeqTask) /\ UNCHANGED kafkaVars
    \/ DeleteMessage_db(SeqTask) /\ UNCHANGED kafkaVars
    \/ DeleteMessage_cache(SeqTask) /\ UNCHANGED kafkaVars
    \/ DeleteMessage_publish(SeqTask) /\ UNCHANGED kafkaVars
    \/ CallListMessagesPaginated(SeqTask) /\ UNCHANGED kafkaVars
    \/ ListMessages_total(SeqTask) /\ UNCHANGED kafkaVars
    \/ ListMessages_query(SeqTask) /\ UNCHANGED kafkaVars
    \/ Return(SeqTask) /\ UNCHANGED kafkaVars
    \/ Expire /\ UNCHANGED kafkaVars

SeqSpec == Init /\ [][SeqNext]_vars

\* ------------------------------------------- concurrent runs without faults
\* the record an earlier createRecord("a") left in the Repository
FirstRow == InsertRow([i \in Ids |-> NoRow], NewId({}), 1, "a")

FirstMessage == RowToMessage(NewId({}), FirstRow[NewId({})])

\* the service starts on stores that outlive it: the Repository, the cache
\* and the topic hold the record of an earlier createRecord("a")
RaceInit ==
    /\ build \in Builds
    /\ db = FirstRow
    /\ issued = {NewId({})}
    /\ now = 2
    /\ cache = CacheSet([i \in AllIds |-> NoEntry], NewId({}), FirstMessage)
    /\ events = <<ProducerMessage(FirstMessage)>>
    /\ pc = [t \in Tasks |-> "idle"]
    /\ op = [t \in Tasks |-> NoOp]
    /\ message = [t \in Tasks |-> ZeroMessage]
    /\ err = [t \in Tasks |-> ErrNil]
    /\ result = [t \in Tasks |-> NoResult]
    /\ calls = [t \in Tasks |-> <<>>]
    /\ hist = [i \in AllIds |-> IF i = NewId({})
                                THEN [mut |-> "create", content |-> "a", fresh |-> FALSE]
                                ELSE NoHist]
    /\ ncalls = 0
    /\ send = NoSend
    /\ ctxDone = FALSE
    /\ start = NoStart
    /\ handle = [p \in Partitions |-> "none"]
    /\ worker = [p \in Partitions |-> "none"]
    /\ spawned = [p \in Partitions |-> 0]
    /\ newest = [p \in Partitions |-> 0]
    /\ pos = [p \in Partitions |-> 0]
    /\ processed = [p \in Partitions |-> <<>>]
    /\ closed = FALSE

\* no cache call and no publish call of a request in progress has failed
NoFault == \A t \in Tasks : \A k \in 1..Len(calls[t]) : calls[t][k].res # "err"

\* the handlers run concurrently; Redis and the broker answer every call
RaceNext ==
    \/ \E t \in Tasks : CallCreateMessage(t) /\ UNCHANGED kafkaVars
    \/ \E t \in Tasks : CreateMessage_db(t) /\ UNCHANGED kafkaVars
    \/ \E t \in Tasks : CreateMessage_cache(t) /\ NoFault' /\ UNCHANGED kafkaVars
    \/ \E t \in Tasks : CreateMessage_publish(t) /\ NoFault' /\ UNCHANGED kafkaVars
    \/ \E t \in Tasks : CallGetMessage(t) /\ UNCHANGED kafkaVars
    \/ \E t \in Tasks : GetMessage_cache(t) /\ NoFault' /\ UNCHANGED kafkaVars
    \/ \E t \in Tasks : GetMessage_db(t) /\ UNCHANGED kafkaVars
    \/ \E t \in Tasks : GetMessage_set(t) /\ NoFault' /\ UNCHANGED kafkaVars
    \/ \E t \in Tasks : CallUpdateMessage(t) /\ UNCHANGED kafkaVars
    \/ \E t \in Tasks : UpdateMessage_db(t) /\ UNCHANGED kafkaVars
    \/ \E t \in Tasks : UpdateMessage_cache(t) /\ NoFault' /\ UNCHANGED kafkaVars
    \/ \E t \in Tasks : UpdateMessage_publish(t) /\ NoFault' /\ UNCHANGED kafkaVars
    \/ \E t \in Tasks : CallDeleteMessage(t) /\ UNCHANGED kafkaVars
    \/ \E t \in Tasks : DeleteMessage_db(t) /\ UNCHANGED kafkaVars
    \/ \E t \in Tasks : DeleteMessage_cache(t) /\ NoFault' /\ UNCHANGED kafkaVars
    \/ \E t \in Tasks : DeleteMessage_publish(t) /\ NoFault' /\ UNCHANGED kafkaVars
    \/ \E t \in Tasks : CallListMessagesPaginated(t) /\ UNCHANGED kafkaVars
    \/ \E t \in Tasks : ListMessages_total(t) /\ UNCHANGED kafkaVars
    \/ \E t \in Tasks : ListMessages_query(t) /\ UNCHANGED kafkaVars
    \/ \E t \in Tasks : Return(t) /\ UNCHANGED kafkaVars
    \/ Expire /\ UNCHANGED kafkaVars

RaceSpec == RaceInit /\ [][RaceNext]_vars

\* ================================================================ claims
Done(t) == pc[t] = "done"

RepoCall(t) ==
    CASE op[t].name = "create" -> "db.CreateMessage"
      [] op[t].name = "update" -> "db.UpdateMessage"
      [] op[t].name = "delete" -> "db.DeleteMessage"
      [] op[t].name = "get" -> "db.GetMessage"
      [] OTHER -> "db.GetTotalMessages"

CacheCall(t) == IF op[t].name = "delete" THEN "cache.Del" ELSE "cache.Set"

RepoLabels == {"CreateMessage_db", "GetMessage_db", "UpdateMessage_db", "DeleteMessage_db"}
PublishLabels == {"CreateMessage_publish", "UpdateMessage_publish", "DeleteMessage_publish"}

Last(q) == q[Len(q)]

\* the Repository read of the call did not break down
RepoReadable(t) == ~Outcome(t, "db.GetMessage", ErrStorage)

\* C1: a finished createRecord, updateRecord or deleteRecord reports success
\* whenever its Repository step succeeded, whatever the cache calls did, and
\* when it reports an error that error is the one of its Repository step.
C1_OnlyRepositoryFails ==
    \A t \in Tasks :
        (Done(t) /\ op[t].name \in Mutations) =>
            /\ Outcome(t, RepoCall(t), "ok") => err[t] = ErrNil
            /\ err[t] # ErrNil => Outcome(t, RepoCall(t), err[t])

C1_Witness ==
    \E t \in Tasks :
        /\ Done(t) /\ op[t].name \in Mutations
        /\ Outcome(t, RepoCall(t), "ok")
        /\ Outcome(t, CacheCall(t), "err")
        /\ err[t] = ErrNil

\* the row written by the call of task t is in the Repository
DurableWriteInPlace(t) ==
    IF op[t].name = "delete" THEN ~Live(db, op[t].id)
    ELSE /\ Live(db, message[t].ID)
         /\ db[message[t].ID].content = op[t].content
         /\ db[message[t].ID].updated_at = message[t].UpdatedAt

\* C2: the publish step of a mutation, when it fails, leaves the Repository
\* and the cache as they were, the durable write of the call is still in
\* place and the call reports success.
C2_PublishFailureNoRollback ==
    [][\A t \in Tasks :
          (pc[t] \in PublishLabels /\ pc'[t] = "done"
              /\ Last(calls'[t]) = [call |-> "producer.PublishMessage", res |-> "err"]) =>
                /\ db' = db /\ cache' = cache /\ events' = events
                /\ err'[t] = ErrNil
                /\ DurableWriteInPlace(t)']_vars

C2_Witness ==
    \E t \in Tasks :
        /\ Done(t) /\ op[t].name = "update"
        /\ Outcome(t, "producer.PublishMessage", "err")
        /\ Outcome(t, "cache.Set", "ok")
        /\ err[t] = ErrNil
        /\ DurableWriteInPlace(t)
        /\ cache[op[t].id] = Marshal(message[t])

\* C3: a getRecord that directly follows the successful createRecord(c) of its
\* identifier returns a Record with content c, from the cache or from the
\* Repository (given the Repository read itself does not break down).
C3_ReadYourWrite ==
    \A t \in Tasks :
        (Done(t) /\ op[t].name = "get" /\ RepoReadable(t)
            /\ hist[op[t].id].mut = "create" /\ hist[op[t].id].fresh) =>
                /\ err[t] = ErrNil
                /\ message[t].ID = op[t].id
                /\ message[t].Content = hist[op[t].id].content

C3_Witness ==
    \E t \in Tasks :
        /\ Done(t) /\ op[t].name = "get"
        /\ hist[op[t].id].mut = "create" /\ hist[op[t].id].fresh
        /\ Outcome(t, "db.GetMessage", "ok")
        /\ message[t].Content = hist[op[t].id].content

\* C4: getRecord reports NotFound for an identifier that was never created
\* and for one whose deleteRecord has succeeded, and listRecords returns no
\* identifier whose deleteRecord has succeeded.
C4_DeletedIsNotFound ==
    \A t \in Tasks :
        /\ (Done(t) /\ op[t].name = "get" /\ RepoReadable(t)
               /\ (op[t].id \notin issued \/ hist[op[t].id].mut = "delete")) =>
                   err[t] = ErrNoRows
        /\ (Done(t) /\ op[t].name = "list") =>
               \A k \in 1..Len(result[t].messages) :
                   hist[result[t].messages[k].ID].mut # "delete"

\* C5: a getRecord after the successful updateRecord(id, c2), with no later
\* mutation of id, returns content c2 and updated-at greater than created-at.
C5_GetAfterUpdate ==
    \A t \in Tasks :
        (Done(t) /\ op[t].name = "get" /\ RepoReadable(t)
            /\ hist[op[t].id].mut = "update") =>
                /\ err[t] = ErrNil
                /\ message[t].Content = hist[op[t].id].content
                /\ message[t].UpdatedAt > message[t].CreatedAt

NoSideCalls(t) ==
    ~Did(t, "cache.Set") /\ ~Did(t, "cache.Del") /\ ~Did(t, "producer.PublishMessage")

\* C6: when the Repository step of createRecord, updateRecord, deleteRecord
\* or getRecord fails or reports NotFound the call ends at once with that
\* error, cache and event stream unchanged, and has made no Cache.set,
\* Cache.delete or publish call.
C6_RepositoryErrorAborts ==
    [][\A t \in Tasks :
          /\ (pc[t] \in RepoLabels /\ pc'[t] # pc[t] /\ Last(calls'[t]).res # "ok") =>
                /\ pc'[t] = "done"
                /\ err'[t] = Last(calls'[t]).res
                /\ cache' = cache /\ events' = events /\ db' = db
          /\ (op'[t].name \in Mutations \cup {"get"} /\ err'[t] # ErrNil) =>
                /\ pc'[t] = "done"
                /\ err'[t] = Last(calls'[t]).res
                /\ Last(calls'[t]).call = RepoCall(t)'
                /\ NoSideCalls(t)']_vars

C6_Witness ==
    \E t \in Tasks :
        /\ Done(t) /\ op[t].name = "update"
        /\ err[t] = ErrNoRows
        /\ calls[t] = <<[call |-> "db.UpdateMessage", res |-> ErrNoRows]>>

\* C7: a getRecord whose Cache.get yields an entry returns that entry at
\* once, with no Repository call and no Cache.set; the Repository is read
\* only after a Cache.get that yielded no entry.
C7_CacheHitReturns ==
    [][\A t \in Tasks :
          /\ (pc[t] = "GetMessage_cache" /\ pc'[t] # pc[t]
                 /\ Last(calls'[t]).res = "hit") =>
                /\ pc'[t] = "done"
                /\ err'[t] = ErrNil
                /\ message'[t] = Unmarshal(cache[op[t].id])
                /\ calls'[t] = <<[call |-> "cache.Get", res |-> "hit"]>>
                /\ db' = db /\ cache' = cache
          /\ Outcome(t, "cache.Get", "hit")' =>
                ~Did(t, "db.GetMessage")' /\ ~Did(t, "cache.Set")'
          /\ Did(t, "db.GetMessage")' =>
                calls'[t][1] \in {[call |-> "cache.Get", res |-> "miss"],
                                  [call |-> "cache.Get", res |-> "err"]}]_vars

C7_Witness ==
    \E t \in Tasks :
        /\ Done(t) /\ op[t].name = "get"
        /\ calls[t] = <<[call |-> "cache.Get", res |-> "hit"]>>
        /\ message[t] = Unmarshal(cache[op[t].id])
        /\ Live(db, op[t].id)

\* C8: a getRecord whose Cache.get missed or failed returns the Record the
\* Repository holds for the identifier; when its Cache.set succeeds the cache
\* entry then equals that Record, and when it fails the cache is unchanged;
\* the Cache.set does not change the Record returned.
C8_MissFallsBackToRepository ==
    [][\A t \in Tasks :
          (pc[t] = "GetMessage_set" /\ pc'[t] = "done") =>
             /\ calls[t][1].res \in {"miss", "err"}
             /\ err'[t] = ErrNil
             /\ message'[t] = message[t]
             /\ Live(db, op[t].id)
             /\ message'[t] = Message(op[t].id, db[op[t].id].content,
                                      db[op[t].id].created_at, db[op[t].id].updated_at)
             /\ Last(calls'[t]).res = "ok" => cache'[op[t].id] = Marshal(message'[t])
             /\ Last(calls'[t]).res = "err" => cache' = cache]_vars

C8_Witness ==
    \E t \in Tasks :
        /\ Done(t) /\ op[t].name = "get"
        /\ calls[t][1] = [call |-> "cache.Get", res |-> "err"]
        /\ Outcome(t, "cache.Set", "ok")
        /\ db[op[t].id].updated_at > db[op[t].id].created_at
        /\ cache[op[t].id] = Marshal(message[t])

CallNames(t) == [k \in 1..Len(calls[t]) |-> calls[t][k].call]

\* C9: a mutation calls the Repository first, the cache second and only
\* after the Repository write succeeded, the publisher third; once the
\* Repository write succeeded the publish is attempted whether the cache
\* step succeeded or failed.
C9_StepOrder ==
    \A t \in Tasks :
        op[t].name \in Mutations =>
            /\ CallNames(t) = SubSeq(<<RepoCall(t), CacheCall(t), "producer.PublishMessage">>,
                                     1, Len(calls[t]))
            /\ Len(calls[t]) >= 2 => calls[t][1].res = "ok"
            /\ (Done(t) /\ Outcome(t, RepoCall(t), "ok")) => Len(calls[t]) = 3

C9_Witness ==
    \E t \in Tasks :
        /\ Done(t) /\ op[t].name = "create"
        /\ Len(calls[t]) = 3
        /\ calls[t][2] = [call |-> "cache.Set", res |-> "err"]
        /\ calls[t][3].call = "producer.PublishMessage"

\* C10: a successful Cache.set of createRecord or updateRecord leaves a cache
\* entry equal to the Repository's record in every field, and a successful
\* Cache.delete of deleteRecord leaves no entry.
C10_CacheEntryIsFullSnapshot ==
    [][\A t \in Tasks :
          /\ (pc[t] \in {"CreateMessage_cache", "UpdateMessage_cache"} /\ pc'[t] # pc[t]
                 /\ Last(calls'[t]).res = "ok") =>
                cache'[message[t].ID] =
                    <<message[t].ID, db[message[t].ID].content,
                      db[message[t].ID].created_at, db[message[t].ID].updated_at>>
          /\ (pc[t] = "DeleteMessage_cache" /\ pc'[t] # pc[t]
                 /\ Last(calls'[t]).res = "ok") =>
                cache'[op[t].id] = NoEntry]_vars

Marked(d, i) == i \in Ids /\ d[i] # NoRow /\ d[i].deleted_at # NULL

\* C11: a finished deleteRecord whose Repository step did not break down
\* reports NotFound when its identifier was never created or is already
\* deleted.
C11_DeleteMissingIsNotFound ==
    \A t \in Tasks :
        (Done(t) /\ op[t].name = "delete" /\ ~Outcome(t, "db.DeleteMessage", ErrStorage)
            /\ (op[t].id \notin issued \/ hist[op[t].id].mut = "delete")) =>
                err[t] = ErrNoRows

\* C12: every identifier ever created keeps its row; the Repository step of
\* deleteRecord changes nothing but the deletion marker (and the refreshed
\* updated-at) of its row; a marked row is never changed again; marked rows
\* are left out by the get, update, list and count steps.
C12_DeletionIsSoft ==
    [][/\ \A i \in issued' : db'[i] # NoRow
       /\ \A i \in Ids : Marked(db, i) => db'[i] = db[i]
       /\ \A t \in Tasks :
             /\ (pc[t] = "DeleteMessage_db" /\ db' # db) =>
                   /\ Marked(db', op[t].id)
                   /\ db' = [db EXCEPT ![op[t].id] =
                                [@ EXCEPT !.deleted_at = db'[op[t].id].deleted_at,
                                          !.updated_at = db'[op[t].id].updated_at]]
             /\ (pc[t] \in {"GetMessage_db", "UpdateMessage_db"} /\ pc'[t] # pc[t]
                     /\ Marked(db, op[t].id)) =>
                   Last(calls'[t]).res \in {ErrNoRows, ErrStorage}
             /\ (pc[t] = "ListMessages_total" /\ pc'[t] = "ListMessages_query") =>
                   result'[t].total = Cardinality({i \in Ids : db[i] # NoRow /\ ~Marked(db, i)})
             /\ (pc[t] = "ListMessages_query" /\ pc'[t] = "done" /\ err'[t] = ErrNil) =>
                   \A k \in 1..Len(result'[t].messages) :
                       ~Marked(db, result'[t].messages[k].ID)]_vars

\* C13: a row keeps its created-at for as long as it exists and its
\* updated-at never decreases; a row that has just been inserted has
\* created-at equal to updated-at and an identifier not used before; a
\* successful update keeps the identifier and sets updated-at, in the row and
\* in the Record returned, to the time of the update.
C13_Timestamps ==
    [][/\ \A i \in Ids :
             /\ (db[i] # NoRow /\ db'[i] # NoRow) =>
                   /\ db'[i].created_at = db[i].created_at
                   /\ db'[i].updated_at >= db[i].updated_at
             /\ (db[i] = NoRow /\ db'[i] # NoRow) =>
                   /\ i \notin issued
                   /\ db'[i].created_at = now
                   /\ db'[i].updated_at = db'[i].created_at
       /\ \A t \in Tasks :
             (pc[t] = "UpdateMessage_db" /\ pc'[t] = "UpdateMessage_cache") =>
                   /\ message'[t].ID = op[t].id
                   /\ db'[op[t].id].updated_at = now
                   /\ message'[t].UpdatedAt = now
                   /\ \A j \in Ids \ {op[t].id} : db'[j] = db[j]]_vars

C13_Witness ==
    \E t \in Tasks :
        /\ Done(t) /\ op[t].name = "update" /\ err[t] = ErrNil
        /\ Live(db, op[t].id)
        /\ db[op[t].id].updated_at > db[op[t].id].created_at
        /\ message[t].UpdatedAt = db[op[t].id].updated_at

PublishCalls(t) ==
    Cardinality({k \in 1..Len(calls[t]) : calls[t][k].call = "producer.PublishMessage"})

\* C15: a finished createRecord, updateRecord or deleteRecord whose
\* Repository step succeeded has made exactly one publish call, any other
\* call has made none; a step changes the event stream only by appending
\* one event to it.
C15_OneEventPerMutation ==
    /\ [](\A t \in Tasks :
             /\ Done(t) =>
                   PublishCalls(t) = IF op[t].name \in Mutations /\ Outcome(t, RepoCall(t), "ok")
                                     THEN 1 ELSE 0
             /\ op[t].name \notin Mutations => PublishCalls(t) = 0)
    /\ [][/\ Len(events') \in {Len(events), Len(events) + 1}
          /\ SubSeq(events', 1, Len(events)) = events
          /\ \A t \in Tasks : PublishCalls(t)' > PublishCalls(t) =>
                /\ pc[t] \in PublishLabels
                /\ Len(events') > Len(events) =>
                      Last(events').Key = Subject(t)]_vars

C15_Witness ==
    /\ Len(events) = 2
    /\ \E t \in Tasks :
          /\ Done(t) /\ op[t].name = "delete"
          /\ Outcome(t, "cache.Del", "err")
          /\ PublishCalls(t) = 1
          /\ Last(events) = ProducerMessage(Message(op[t].id, "", ZeroTime, ZeroTime))

\* the values of q that decode, as the worker logs them
RECURSIVE LoggedSeq(_)
LoggedSeq(q) ==
    IF q = <<>> THEN <<>>
    ELSE IF Decodes(Head(q).Value) THEN <<Logged(Head(q).Value)>> \o LoggedSeq(Tail(q))
         ELSE LoggedSeq(Tail(q))

\* C14: every event the Publisher sent has the identifier of its Record as
\* key, so the events of one identifier are all in one partition, and the
\* worker of a partition has processed the events it received in the order
\* the broker accepted them.
C14_KeyedAndOrdered ==
    /\ \A k \in 1..Len(events) :
          Decodes(events[k].Value) => events[k].Key = Unmarshal(events[k].Value).ID
    /\ \A i \in Ids : \E p \in Partitions : \A k \in 1..Len(events) :
          (Decodes(events[k].Value) /\ Unmarshal(events[k].Value).ID = i) =>
              Partition(events[k].Key) = p
    /\ \A p \in Partitions : processed[p] = LoggedSeq(Consumed(p))

C14_Witness ==
    \E p \in Partitions :
        /\ Len(processed[p]) = 2
        /\ processed[p][1].id = processed[p][2].id
        /\ processed[p][1].content = "a"
        /\ processed[p][2].content = ""
        /\ \E q \in Partitions \ {p} : Len(PartitionLog(events, q)) = 0

\* C16: a publish call makes at most Retry.Max retries, reports success only
\* when the send was acknowledged by all in-sync replicas and only then is
\* the event on the topic, reports an error otherwise, and every call that
\* started sending returns.
C16_PublishTerminates ==
    /\ [](send.attempts <= RetryMax + 1)
    /\ [](send.pc = "returned" =>
             /\ send.attempts >= 1
             /\ send.err = ErrNil <=> send.acks = WaitForAll
             /\ send.err = ErrNil => Last(events) = ProducerMessage(send.msg)
             /\ send.err # ErrNil => send.err = ErrSend)
    /\ [][send.pc = "sending" /\ send'.pc = "returned" /\ send'.err # ErrNil =>
             events' = events]_vars
    /\ (send.pc = "sending") ~> (send.pc = "returned")

C16_Witness ==
    /\ send.pc = "returned"
    /\ send.err = ErrSend
    /\ send.acks = "leader"
    /\ send.attempts = RetryMax + 1
    /\ Len(events) = 1

\* C17: a worker that has returned has closed its partition handle, and once
\* the context is cancelled every worker that is running returns.
C17_WorkersReturn ==
    /\ [](\A p \in Partitions : worker[p] = "returned" => handle[p] = "closed")
    /\ [][\A p \in Partitions : worker[p] = "returned" => worker'[p] = "returned"]_vars
    /\ \A p \in Partitions : (ctxDone /\ worker[p] = "select") ~> (worker[p] = "returned")

C17_Witness ==
    /\ ctxDone
    /\ start.pc = "returned_ok"
    /\ \A p \in Partitions : worker[p] = "returned" /\ handle[p] = "closed"
    /\ \E p \in Partitions : Available(p)

\* C18: once the context is cancelled no worker receives or processes a
\* further event.
C18_NoProcessingAfterCancel ==
    [][ctxDone => \A p \in Partitions : pos'[p] = pos[p] /\ processed'[p] = processed[p]]_vars

\* C19: when Start has returned success every partition of the lookup has
\* exactly one worker; no partition ever has two; after Start returned no
\* worker is started, Start is not resumed, and a worker that returned stays
\* returned.
C19_OneWorkerPerPartition ==
    /\ [](start.pc = "returned_ok" =>
             \A p \in Partitions : spawned[p] = 1 /\ worker[p] # "none")
    /\ [](\A p \in Partitions : spawned[p] <= 1)
    /\ [][start.pc \in {"returned_ok", "returned_err"} =>
             /\ start' = start
             /\ spawned' = spawned
             /\ \A p \in Partitions :
                   /\ worker[p] = "none" => worker'[p] = "none"
                   /\ worker[p] = "returned" => worker'[p] = "returned"]_vars

C19_Witness ==
    /\ start.pc = "returned_ok"
    /\ \A p \in Partitions : spawned[p] = 1
    /\ \E p, q \in Partitions : worker[p] = "returned" /\ worker[q] = "select" /\ pos[q] > 0

\* C20: a worker that receives a value it cannot decode stays in its loop
\* with its handle open and processes nothing for it; the next value it
\* receives that decodes is processed; a worker leaves its loop only when
\* the context is cancelled.
C20_MalformedSkipped ==
    [][\A p \in Partitions :
          /\ (pos'[p] = pos[p] + 1 /\ ~Decodes(NextEvent(p).Value)) =>
                /\ worker'[p] = "select" /\ handle'[p] = "open"
                /\ processed'[p] = processed[p]
          /\ (pos'[p] = pos[p] + 1 /\ Decodes(NextEvent(p).Value)) =>
                processed'[p] = Append(processed[p], Logged(NextEvent(p).Value))
          /\ (worker[p] = "select" /\ worker'[p] # "select") => ctxDone]_vars

C20_Witness ==
    \E p \in Partitions :
        /\ pos[p] = 2
        /\ ~Decodes(Consumed(p)[1].Value)
        /\ Decodes(Consumed(p)[2].Value)
        /\ processed[p] = <<Logged(Consumed(p)[2].Value)>>
        /\ worker[p] = "select" /\ handle[p] = "open"

\* C21: the event a deleteRecord publishes holds the identifier and nothing
\* else of the record; the event a createRecord or updateRecord publishes is
\* the Repository's record as that call wrote it.
C21_EventPayload ==
    [][\A t \in Tasks :
          (pc[t] \in PublishLabels /\ pc'[t] = "done" /\ Len(events') > Len(events)) =>
             /\ Last(events').Key = Subject(t)
             /\ op[t].name = "delete" =>
                   Unmarshal(Last(events').Value) = Message(op[t].id, "", ZeroTime, ZeroTime)
             /\ op[t].name \in {"create", "update"} =>
                   Unmarshal(Last(events').Value) = RowToMessage(Subject(t), db[Subject(t)])]_vars

\* C22: every event a mutation publishes has a field for the operation kind
\* and that field names the kind of the mutation.
C22_EventCarriesKind ==
    [][\A t \in Tasks :
          (pc[t] \in PublishLabels /\ pc'[t] = "done" /\ Len(events') > Len(events)) =>
             /\ "Kind" \in DOMAIN Last(events')
             /\ Last(events').Kind = (CASE op[t].name = "create" -> "created"
                                        [] op[t].name = "update" -> "updated"
                                        [] OTHER -> "deleted")]_vars

\* C23: a listRecords that reaches the Repository queries it with limit
\* pageSize and with the offset (page-1)*pageSize computed without
\* wrap-around.
C23_ExactOffset ==
    [][\A t \in Tasks :
          (pc[t] = "ListMessages_query" /\ pc'[t] = "done" /\ err'[t] = ErrNil) =>
             /\ op[t].page >= 1 /\ op[t].pageSize >= 1
             /\ result'[t].messages =
                   ListRows(db, op[t].pageSize, (op[t].page - 1) * op[t].pageSize)]_vars

\* the event a deleteRecord of identifier i publishes
DeleteEvent(i) == ProducerMessage(Message(i, "", ZeroTime, ZeroTime))

\* C29: a deletion event on the topic is for an identifier that was created
\* and is no longer live, and there is at most one deletion event per
\* identifier.
C29_DeleteEventOnlyForDeletion ==
    \A k \in 1..Len(events) :
        events[k] = DeleteEvent(events[k].Key) =>
            /\ events[k].Key \in issued
            /\ ~Live(db, events[k].Key)
            /\ \A j \in 1..Len(events) : events[j] = events[k] => j = k

Quiescent == \A t \in Tasks : pc[t] = "idle"

\* the record the run started with: its createRecord is not part of the run,
\* so only getRecord, updateRecord and deleteRecord calls race on it
Seeded == NewId({})

\* C24: a getRecord of the seeded record that makes its first step after a
\* deleteRecord of it has returned success does not return a Record (runs
\* in which every cache and publish call succeeds).
C24_NoResurrection ==
    [][\A t \in Tasks :
          (pc[t] = "GetMessage_cache" /\ pc'[t] # pc[t] /\ op[t].id = Seeded
              /\ hist[op[t].id].mut = "delete") =>
             ~(pc'[t] = "done" /\ err'[t] = ErrNil)]_vars

\* C25: when no request is in progress, the cache entry of the seeded
\* record, while it is live, is absent or has the content of the
\* Repository's record (runs in which every cache call succeeds).
C25_CacheCoherent ==
    Quiescent =>
        \A i \in {Seeded} :
            Live(db, i) =>
                \/ cache[i] = NoEntry
                \/ Unmarshal(cache[i]).Content = db[i].content

\* the events of identifier i, in topic order
EventsOf(i) == SelectSeq(events, LAMBDA e : e.Key = i)

\* C26: the events of the seeded record are on the topic in the order of
\* their durable writes and none follows a deletion event; when no request
\* is in progress the last of them shows the Repository's final state of
\* the record (runs in which every publish succeeds).
C26_EventOrder ==
    \A i \in {Seeded} :
        LET q == EventsOf(i) IN
        /\ \A j, k \in 1..Len(q) :
              j < k =>
                 /\ q[j] # DeleteEvent(i)
                 /\ q[k] # DeleteEvent(i) =>
                       Unmarshal(q[j].Value).UpdatedAt <= Unmarshal(q[k].Value).UpdatedAt
        /\ (Quiescent /\ q # <<>>) =>
              IF Live(db, i)
              THEN /\ Unmarshal(Last(q).Value).Content = db[i].content
                   /\ Unmarshal(Last(q).Value).UpdatedAt = db[i].updated_at
              ELSE Last(q) = DeleteEvent(i)

\* C30: the page a listRecords returns has at most total records, and
\* exactly total records for page 1 with pageSize >= total.
C30_TotalMatchesPage ==
    \A t \in Tasks :
        (Done(t) /\ op[t].name = "list" /\ err[t] = ErrNil) =>
            /\ Len(result[t].messages) <= result[t].total
            /\ (op[t].page = 1 /\ op[t].pageSize >= result[t].total) =>
                  Len(result[t].messages) = result[t].total

\* C27: the consumer client is closed only when no worker is in its loop and
\* no partition handle is open.
C27_CloseAfterWorkers ==
    closed => \A p \in Partitions : worker[p] # "select" /\ handle[p] # "open"

\* C28: when Start returns an error no worker is in its loop and no
\* partition handle is open.
C28_StartAllOrNothing ==
    [][(start.pc # "returned_err" /\ start'.pc = "returned_err") =>
          \A p \in Partitions : worker'[p] # "select" /\ handle'[p] # "open"]_vars

====
